---- MODULE Spec2Model ----
(***************************************************************************)
(* Project-file management of the Ontime server: the route handlers of the *)
(* project controller (patch, create, download, upload, list, load,        *)
(* duplicate, rename, delete, info) over the projects directory, the       *)
(* active in-memory model and the application state (lastLoadedProject).   *)
(*                                                                         *)
(* A filename is a sequence of string tokens, e.g. <<"A", " (1)", ".json">>*)
(* is "A (1).json"; the empty sequence is the empty string.                *)
(*                                                                         *)
(* Spec     : requests are served one at a time, each handler running to   *)
(*            completion (one action per handler).                         *)
(* ConcSpec : two clients whose duplicate / rename requests are split at   *)
(*            the handler's await, between validation and the filesystem   *)
(*            mutation.                                                    *)
(***************************************************************************)
EXTENDS Integers, Sequences, FiniteSets, TLC

VARIABLES
    files,              \* projects directory: filename -> file content
    lastLoadedProject,  \* application state: filename, or NoProject
    model,              \* the active in-memory DatabaseModel
    last,               \* the last request served: what was asked, answered, invoked
    pending,            \* ConcSpec: per client, the request suspended at its await
    completed           \* ConcSpec: per client, the response of its finished request

vars == <<files, lastLoadedProject, model, last, pending, completed>>

(***************************************************************************)
(* Bounds                                                                  *)
(***************************************************************************)
\* most files the projects directory holds
MaxFiles == 3
\* concurrent clients of ConcSpec
NumClients == 2

(***************************************************************************)
(* Values                                                                  *)
(***************************************************************************)
Ext == ".json"
NoProject == <<>>
\* an absent (undefined) request field or argument
Undefined == <<"undefined">>

\* the top-level fields of DatabaseModel that the model tracks
Fields == {"rundown", "settings"}
DefaultModel == [f \in Fields |-> "o"]
PatchedModel == [f \in Fields |-> "x"]

\* a file's content: a parsable DatabaseModel, or not
GoodFile(m) == [ok |-> TRUE, data |-> m]
CorruptFile == [ok |-> FALSE, data |-> DefaultModel]

\* request inputs
Titles == {<<>>, <<"A">>, <<"A", Ext>>}
ReqNames == {<<"A", Ext>>, <<"B", Ext>>}
UploadContents == {GoodFile(PatchedModel), CorruptFile}
\* patch bodies: empty, one valid field, one invalid field, an unknown field only
PatchBodies ==
    { [f \in {} |-> "x"], [f \in {"rundown"} |-> "x"], [f \in {"settings"} |-> "x"],
      [f \in {"rundown"} |-> "invalid"], [f \in {"extra"} |-> "x"] }

Names(fs) == DOMAIN fs

(***************************************************************************)
(* Filename policy                                                         *)
(***************************************************************************)
EnsureJsonExtension(name) ==
    IF Len(name) > 0 /\ name[Len(name)] = Ext THEN name ELSE name \o <<Ext>>

Counter(n) == " (" \o ToString(n) \o ")"

\* the n-th candidate for a requested name that carries the extension
Candidate(name, n) ==
    IF n = 0 THEN name
    ELSE SubSeq(name, 1, Len(name) - 1) \o <<Counter(n)>> \o <<Ext>>

\* the first candidate, counting up, that the directory does not hold
GenerateUniqueFileName(dir, name) ==
    LET n == CHOOSE k \in 0..Cardinality(dir) :
                 /\ Candidate(name, k) \notin dir
                 /\ \A j \in 0..(k - 1) : Candidate(name, j) \in dir
    IN  Candidate(name, n)

\* the list of errors of an operation on filename (source) and newFilename (target)
ValidateProjectFiles(fs, filename, newFilename) ==
    (IF filename # Undefined /\ filename \notin Names(fs)
        THEN <<"Project file does not exist">> ELSE <<>>)
    \o
    (IF newFilename # Undefined /\ newFilename \in Names(fs)
        THEN <<"New project file already exists">> ELSE <<>>)

DoesProjectExist(fs, name) == name \in Names(fs)

FailEmptyObjects(body) == DOMAIN body = {}

(***************************************************************************)
(* Project store                                                           *)
(***************************************************************************)
\* fs with name bound to content (a new file, or the file replaced)
WriteFile(fs, name, content) ==
    [n \in Names(fs) \cup {name} |-> IF n = name THEN content ELSE fs[n]]

RemoveFile(fs, name) == [n \in Names(fs) \ {name} |-> fs[n]]

CreateProjectFileSvc(fs, filename) == WriteFile(fs, filename, GoodFile(DefaultModel))

\* filesystem copy: fails if the source is missing, replaces the target
DuplicateProjectFileSvc(fs, filename, newFilename) ==
    IF filename \notin Names(fs) THEN [ok |-> FALSE, fs |-> fs]
    ELSE [ok |-> TRUE, fs |-> WriteFile(fs, newFilename, fs[filename])]

\* filesystem rename: fails if the source is missing, replaces the target
RenameProjectFileSvc(fs, filename, newFilename) ==
    IF filename \notin Names(fs) THEN [ok |-> FALSE, fs |-> fs]
    ELSE [ok |-> TRUE,
          fs |-> WriteFile(RemoveFile(fs, filename), newFilename, fs[filename])]

\* removes the file: fails if it is absent
DeleteProjectFileSvc(fs, filename) ==
    IF filename \notin Names(fs) THEN [ok |-> FALSE, fs |-> fs]
    ELSE [ok |-> TRUE, fs |-> RemoveFile(fs, filename)]

\* the uploaded file is moved into the projects directory under its name
HandleUploadedFile(fs, filename, content) == WriteFile(fs, filename, content)

\* loads and parses the file into the active model and records the load
ApplyProjectFile(fs, filename, m, loaded) ==
    IF filename \in Names(fs) /\ fs[filename].ok
        THEN [ok |-> TRUE, model |-> fs[filename].data, loaded |-> filename]
        ELSE [ok |-> FALSE, model |-> m, loaded |-> loaded]

\* merges the provided fields into the active model; all or nothing
ApplyDataModel(m, patchDb) ==
    IF \E f \in Fields : patchDb[f] = "invalid"
        THEN [ok |-> FALSE, model |-> m]
        ELSE [ok |-> TRUE,
              model |-> [f \in Fields |->
                            IF patchDb[f] = "undefined" THEN m[f] ELSE patchDb[f]]]

GetProjectTitle(loaded) == IF loaded = NoProject THEN <<"db", Ext>> ELSE loaded

(***************************************************************************)
(* The record of a served request                                          *)
(***************************************************************************)
Pre == [files |-> files, lastLoadedProject |-> lastLoadedProject, model |-> model]

\* sent: the statuses of the responses the handler sent, in order
Served(op, filename, newFilename, body, sent, invoked, result, errors) ==
    [op |-> op, filename |-> filename, newFilename |-> newFilename, body |-> body,
     sent |-> sent, invoked |-> invoked, result |-> result, errors |-> errors,
     pre |-> Pre]

NoRequest == Served("none", Undefined, Undefined, <<>>, <<>>, {}, Undefined, <<>>)

Idle == [pc |-> "idle", op |-> "none", filename |-> Undefined, newFilename |-> Undefined]
NoResponse == [status |-> 0, target |-> Undefined, replaced |-> FALSE]

(***************************************************************************)
(* Initial states: a directory holding the loaded project                  *)
(***************************************************************************)
InitialDirectories ==
    { [n \in {<<"A", Ext>>} |-> GoodFile(DefaultModel)],
      [n \in {<<"A", Ext>>, <<"B", Ext>>} |->
          IF n = <<"A", Ext>> THEN GoodFile(DefaultModel) ELSE GoodFile(PatchedModel)] }

Init ==
    /\ files \in InitialDirectories
    /\ lastLoadedProject \in {NoProject, <<"A", Ext>>}
    /\ model = DefaultModel
    /\ last = NoRequest
    /\ pending = [c \in 1..NumClients |-> Idle]
    /\ completed = [c \in 1..NumClients |-> NoResponse]


(***************************************************************************)
(* Handlers.  Each handler is a function of the state and the request to   *)
(* its outcome: the responses sent, the services invoked and the state it  *)
(* leaves.                                                                 *)
(***************************************************************************)
Outcome(sent, invoked, fs, loaded, m, result, errors) ==
    [sent |-> sent, invoked |-> invoked, files |-> fs, loaded |-> loaded,
     model |-> m, result |-> result, errors |-> errors]

\* a response that leaves the state as it is
Reply(status, invoked, errors) ==
    Outcome(<<status>>, invoked, files, lastLoadedProject, model, Undefined, errors)

\* patch that applies the body even when it is empty
PatchOutcomeNoEmptyCheck(body) ==
    LET patchDb == [f \in Fields |-> IF f \in DOMAIN body THEN body[f] ELSE "undefined"]
        r == ApplyDataModel(model, patchDb)
    IN  IF r.ok
            THEN Outcome(<<200>>, {"applyDataModel"}, files, lastLoadedProject,
                         r.model, Undefined, <<>>)
            ELSE Reply(400, {"applyDataModel"}, <<>>)

PatchOutcome(body) ==
    IF FailEmptyObjects(body) THEN Reply(400, {}, <<>>)
    ELSE LET patchDb == [f \in Fields |->
                            IF f \in DOMAIN body THEN body[f] ELSE "undefined"]
             r == ApplyDataModel(model, patchDb)
         IN  IF r.ok
                 THEN Outcome(<<200>>, {"applyDataModel"}, files, lastLoadedProject,
                              r.model, Undefined, <<>>)
                 ELSE Reply(400, {"applyDataModel"}, <<>>)

\* create that validates and writes the requested name, not the unique one
CreateOutcomeRequestedName(title) ==
    LET filename == EnsureJsonExtension(IF title = <<>> THEN <<"Untitled">> ELSE title)
        errors == ValidateProjectFiles(files, Undefined, filename)
    IN  IF Len(errors) > 0 THEN Reply(409, {}, errors)
        ELSE Outcome(<<200>>, {"createProjectFile"},
                     CreateProjectFileSvc(files, filename),
                     lastLoadedProject, model, filename, <<>>)

CreateOutcome(title) ==
    LET originalFilename ==
            EnsureJsonExtension(IF title = <<>> THEN <<"Untitled">> ELSE title)
        filename == GenerateUniqueFileName(Names(files), originalFilename)
        errors == ValidateProjectFiles(files, Undefined, filename)
    IN  IF Len(errors) > 0 THEN Reply(409, {}, errors)
        ELSE Outcome(<<200>>, {"createProjectFile"},
                     CreateProjectFileSvc(files, filename),
                     lastLoadedProject, model, filename, <<>>)

\* exists: whether the db directory holds the file; transfer: how res.download ends
DownloadOutcome(fileName, exists, transfer) ==
    LET name == IF fileName # Undefined /\ fileName # <<>>
                    THEN EnsureJsonExtension(fileName)
                    ELSE GetProjectTitle(lastLoadedProject)
        sent == IF ~exists THEN <<404>>
                ELSE IF transfer = "done" THEN <<200>>
                ELSE IF transfer = "failedBeforeHeaders" THEN <<500>>
                ELSE <<200, 500>>
    IN  Outcome(sent, {}, files, lastLoadedProject, model, name, <<>>)

\* file: Undefined, or the uploaded file's [filename, content]
PostOutcome(file) ==
    IF file = Undefined THEN Reply(400, {}, <<>>)
    ELSE LET moved == HandleUploadedFile(files, file[1], file[2])
             r == ApplyProjectFile(moved, file[1], model, lastLoadedProject)
         IN  Outcome(IF r.ok THEN <<201>> ELSE <<400>>,
                     {"handleUploadedFile", "applyProjectFile"},
                     moved, r.loaded, r.model, file[1], <<>>)

ListOutcome(readable) ==
    Reply(IF readable THEN 200 ELSE 500, {"getProjectList"}, <<>>)

\* load that applies the file without looking for it first
LoadOutcomeNoExistCheck(name) ==
    LET r == ApplyProjectFile(files, name, model, lastLoadedProject)
    IN  Outcome(IF r.ok THEN <<201>> ELSE <<500>>, {"applyProjectFile"},
                files, r.loaded, r.model, Undefined, <<>>)

LoadOutcome(name) ==
    IF ~DoesProjectExist(files, name) THEN Reply(404, {}, <<>>)
    ELSE LET r == ApplyProjectFile(files, name, model, lastLoadedProject)
         IN  Outcome(IF r.ok THEN <<201>> ELSE <<500>>, {"applyProjectFile"},
                     files, r.loaded, r.model, Undefined, <<>>)

\* duplicate that validates the source only
DuplicateOutcomeSourceOnly(filename, newFilename) ==
    LET errors == ValidateProjectFiles(files, filename, Undefined)
    IN  IF Len(errors) > 0 THEN Reply(409, {}, errors)
        ELSE LET r == DuplicateProjectFileSvc(files, filename, newFilename)
             IN  Outcome(IF r.ok THEN <<201>> ELSE <<500>>, {"duplicateProjectFile"},
                         r.fs, lastLoadedProject, model, Undefined, <<>>)

DuplicateOutcome(filename, newFilename) ==
    LET errors == ValidateProjectFiles(files, filename, newFilename)
    IN  IF Len(errors) > 0 THEN Reply(409, {}, errors)
        ELSE LET r == DuplicateProjectFileSvc(files, filename, newFilename)
             IN  Outcome(IF r.ok THEN <<201>> ELSE <<500>>, {"duplicateProjectFile"},
                         r.fs, lastLoadedProject, model, Undefined, <<>>)

RenameOutcome(filename, newFilename) ==
    LET errors == ValidateProjectFiles(files, filename, newFilename)
    IN  IF Len(errors) > 0 THEN Reply(409, {}, errors)
        ELSE LET r == RenameProjectFileSvc(files, filename, newFilename)
             IN  Outcome(IF r.ok THEN <<201>> ELSE <<500>>, {"renameProjectFile"},
                         r.fs, lastLoadedProject, model, Undefined, <<>>)

\* delete that validates before it consults the application state
DeleteOutcomeValidateFirst(filename) ==
    LET errors == ValidateProjectFiles(files, filename, Undefined)
    IN  IF Len(errors) > 0 THEN Reply(409, {}, errors)
        ELSE IF lastLoadedProject = filename THEN Reply(403, {}, <<>>)
        ELSE LET r == DeleteProjectFileSvc(files, filename)
             IN  Outcome(IF r.ok THEN <<204>> ELSE <<500>>, {"deleteProjectFile"},
                         r.fs, lastLoadedProject, model, Undefined, <<>>)

\* delete that hands every filename to the service
DeleteOutcomeNoValidation(filename) ==
    IF lastLoadedProject = filename THEN Reply(403, {}, <<>>)
    ELSE LET r == DeleteProjectFileSvc(files, filename)
         IN  Outcome(IF r.ok THEN <<204>> ELSE <<500>>, {"deleteProjectFile"},
                     r.fs, lastLoadedProject, model, Undefined, <<>>)

DeleteOutcome(filename) ==
    IF lastLoadedProject = filename THEN Reply(403, {}, <<>>)
    ELSE LET errors == ValidateProjectFiles(files, filename, Undefined)
         IN  IF Len(errors) > 0 THEN Reply(409, {}, errors)
             ELSE LET r == DeleteProjectFileSvc(files, filename)
                  IN  Outcome(IF r.ok THEN <<204>> ELSE <<500>>,
                              {"deleteProjectFile"},
                              r.fs, lastLoadedProject, model, Undefined, <<>>)

GetInfoOutcome == Reply(200, {"getInfo"}, <<>>)

(***************************************************************************)
(* Spec: one request at a time, each handler run to completion             *)
(***************************************************************************)
Serve(op, filename, newFilename, body, out) ==
    /\ Cardinality(Names(out.files)) <= MaxFiles
    /\ files' = out.files
    /\ lastLoadedProject' = out.loaded
    /\ model' = out.model
    /\ last' = Served(op, filename, newFilename, body,
                      out.sent, out.invoked, out.result, out.errors)
    /\ UNCHANGED <<pending, completed>>

patchPartialProjectFile ==
    \E body \in PatchBodies :
        Serve("patch", Undefined, Undefined, body, PatchOutcome(body))

createProjectFile ==
    \E title \in Titles :
        Serve("create", title, Undefined, <<>>, CreateOutcome(title))

projectDownload ==
    \E fileName \in {Undefined, <<"A">>}, exists \in BOOLEAN,
       transfer \in {"done", "failedBeforeHeaders", "failedAfterHeaders"} :
        Serve("download", fileName, Undefined, <<>>,
              DownloadOutcome(fileName, exists, transfer))

postProjectFile ==
    \E file \in {Undefined} \cup (ReqNames \X UploadContents) :
        Serve("upload", IF file = Undefined THEN Undefined ELSE file[1], Undefined,
              <<>>, PostOutcome(file))

listProjects ==
    \E readable \in BOOLEAN :
        Serve("list", Undefined, Undefined, <<>>, ListOutcome(readable))

loadProject ==
    \E name \in ReqNames :
        Serve("load", name, Undefined, <<>>, LoadOutcome(name))

duplicateProjectFile ==
    \E filename \in ReqNames, newFilename \in ReqNames :
        Serve("duplicate", filename, newFilename, <<>>,
              DuplicateOutcome(filename, newFilename))

renameProjectFile ==
    \E filename \in ReqNames, newFilename \in ReqNames :
        Serve("rename", filename, newFilename, <<>>,
              RenameOutcome(filename, newFilename))

deleteProjectFile ==
    \E filename \in ReqNames :
        Serve("delete", filename, Undefined, <<>>, DeleteOutcome(filename))

getInfo == Serve("info", Undefined, Undefined, <<>>, GetInfoOutcome)

Next ==
    \/ patchPartialProjectFile
    \/ createProjectFile
    \/ projectDownload
    \/ postProjectFile
    \/ listProjects
    \/ loadProject
    \/ duplicateProjectFile
    \/ renameProjectFile
    \/ deleteProjectFile
    \/ getInfo

Spec == Init /\ [][Next]_vars


(***************************************************************************)
(* ConcSpec: each client sends one create, duplicate or rename request.    *)
(* Create runs in one step (nothing in it is awaited).  Duplicate and      *)
(* rename validate in a first step and, suspended at the await of the      *)
(* service call, mutate the directory and respond in a second one.         *)
(***************************************************************************)
Fresh(c) == pending[c].pc = "idle" /\ completed[c] = NoResponse

Respond(c, status, target, replaced) ==
    completed' = [completed EXCEPT ![c] =
                     [status |-> status, target |-> target, replaced |-> replaced]]

createRequest(c) ==
    \E title \in Titles :
        LET out == CreateOutcome(title)
        IN  /\ Fresh(c)
            /\ Cardinality(Names(out.files)) <= MaxFiles
            /\ files' = out.files
            /\ Respond(c, out.sent[1], out.result, FALSE)
            /\ UNCHANGED <<lastLoadedProject, model, last, pending>>

\* the handler up to its await: validation, and 409 on errors
Validate(c, op) ==
    \E filename \in ReqNames, newFilename \in ReqNames :
        LET errors == ValidateProjectFiles(files, filename, newFilename)
        IN  /\ Fresh(c)
            /\ IF Len(errors) > 0
                   THEN /\ Respond(c, 409, newFilename, FALSE)
                        /\ UNCHANGED pending
                   ELSE /\ pending' = [pending EXCEPT ![c] =
                               [pc |-> "await", op |-> op,
                                filename |-> filename, newFilename |-> newFilename]]
                        /\ UNCHANGED completed
            /\ UNCHANGED <<files, lastLoadedProject, model, last>>

\* the awaited service call completes, and the handler responds
Mutate(c, op, r) ==
    /\ pending[c].pc = "await"
    /\ pending[c].op = op
    /\ Cardinality(Names(r.fs)) <= MaxFiles
    /\ files' = r.fs
    /\ Respond(c, IF r.ok THEN 201 ELSE 500, pending[c].newFilename,
               r.ok /\ pending[c].newFilename \in Names(files))
    /\ pending' = [pending EXCEPT ![c] = Idle]
    /\ UNCHANGED <<lastLoadedProject, model, last>>

duplicateValidate(c) == Validate(c, "duplicate")

duplicateMutate(c) ==
    Mutate(c, "duplicate",
           DuplicateProjectFileSvc(files, pending[c].filename, pending[c].newFilename))

renameValidate(c) == Validate(c, "rename")

renameMutate(c) ==
    Mutate(c, "rename",
           RenameProjectFileSvc(files, pending[c].filename, pending[c].newFilename))

ConcNext ==
    \E c \in 1..NumClients :
        \/ createRequest(c)
        \/ duplicateValidate(c)
        \/ duplicateMutate(c)
        \/ renameValidate(c)
        \/ renameMutate(c)

ConcSpec == Init /\ [][ConcNext]_vars

(***************************************************************************)
(* Properties                                                              *)
(***************************************************************************)
Succeeded(status) == status \in {200, 201, 204}

\* C1: a delete request for the loaded project is answered 403, whether or
\* not the file exists, and leaves the projects directory as it was.
DeleteLoadedForbidden ==
    (last.op = "delete" /\ last.filename = last.pre.lastLoadedProject)
        => (last.sent = <<403>> /\ last.invoked = {} /\ files = last.pre.files)

\* a delete of the loaded project whose file is no longer in the directory
DeleteLoadedForbiddenWitness ==
    /\ last.op = "delete"
    /\ last.filename = last.pre.lastLoadedProject
    /\ last.filename \notin Names(last.pre.files)
    /\ last.sent = <<403>>

\* C2: a rename or duplicate whose newFilename exists is answered 409 with a
\* non-empty error list, without invoking the service, the directory unchanged.
ExistingTargetConflict ==
    (last.op \in {"duplicate", "rename"} /\ last.newFilename \in Names(last.pre.files))
        => /\ last.sent = <<409>>
           /\ Len(last.errors) > 0
           /\ last.invoked = {}
           /\ files = last.pre.files

\* a duplicate of an existing file onto another existing file
ExistingTargetConflictWitness ==
    /\ last.op = "duplicate"
    /\ last.filename \in Names(last.pre.files)
    /\ last.newFilename \in Names(last.pre.files)
    /\ last.filename # last.newFilename
    /\ last.sent = <<409>>

\* C3: a create request run on its own answers 200 with a filename the
\* directory did not hold, creates exactly that file and leaves the others
\* as they were.
CreateUnique ==
    last.op = "create"
        => /\ last.sent = <<200>>
           /\ last.result \notin Names(last.pre.files)
           /\ Names(files) = Names(last.pre.files) \cup {last.result}
           /\ \A n \in Names(last.pre.files) : files[n] = last.pre.files[n]

\* "A" created while "A.json" and "A (1).json" exist: "A (2).json"
CreateUniqueWitness ==
    /\ last.op = "create"
    /\ last.filename = <<"A">>
    /\ {<<"A", Ext>>, <<"A", " (1)", Ext>>} \subseteq Names(last.pre.files)
    /\ last.result = <<"A", " (2)", Ext>>
    /\ last.sent = <<200>>

\* C4: a load request for a filename the directory does not hold is answered
\* 404 without applying anything; lastLoadedProject and the model stay.
LoadMissingNotFound ==
    (last.op = "load" /\ last.filename \notin Names(last.pre.files))
        => /\ last.sent = <<404>>
           /\ "applyProjectFile" \notin last.invoked
           /\ lastLoadedProject = last.pre.lastLoadedProject
           /\ model = last.pre.model

\* a load of a missing file while another project is loaded
LoadMissingNotFoundWitness ==
    /\ last.op = "load"
    /\ last.filename \notin Names(last.pre.files)
    /\ last.pre.lastLoadedProject # NoProject
    /\ last.sent = <<404>>

\* C5: a patch request with an empty body is answered 400, applyDataModel is
\* not invoked and the active model is unchanged.
PatchEmptyRejected ==
    (last.op = "patch" /\ DOMAIN last.body = {})
        => /\ last.sent = <<400>>
           /\ "applyDataModel" \notin last.invoked
           /\ model = last.pre.model

\* an empty patch of a model that an earlier patch has changed
PatchEmptyRejectedWitness ==
    /\ last.op = "patch"
    /\ DOMAIN last.body = {}
    /\ last.pre.model # DefaultModel
    /\ last.sent = <<400>>

\* C6: an upload-and-apply or patch request that fails in applying (400)
\* leaves the model, lastLoadedProject and the projects directory unchanged.
NoPartialApplication ==
    (/\ last.op \in {"upload", "patch"}
     /\ last.sent = <<400>>
     /\ last.invoked \cap {"applyProjectFile", "applyDataModel"} # {})
        => /\ model = last.pre.model
           /\ lastLoadedProject = last.pre.lastLoadedProject
           /\ files = last.pre.files

\* C7 as claimed: a delete request for an absent file that is not the loaded
\* project is answered 404 and removes nothing.
DeleteMissingNotFound ==
    (/\ last.op = "delete"
     /\ last.filename \notin Names(last.pre.files)
     /\ last.filename # last.pre.lastLoadedProject)
        => (last.sent = <<404>> /\ files = last.pre.files)

\* C7 amended: a delete request for an absent file that is not the loaded
\* project is answered 409 with the validation errors, the service delete is
\* not invoked, and nothing is removed.
DeleteMissingConflict ==
    (/\ last.op = "delete"
     /\ last.filename \notin Names(last.pre.files)
     /\ last.filename # last.pre.lastLoadedProject)
        => /\ last.sent = <<409>>
           /\ Len(last.errors) > 0
           /\ last.invoked = {}
           /\ files = last.pre.files

\* a delete of an absent file while the directory holds the loaded project
DeleteMissingConflictWitness ==
    /\ last.op = "delete"
    /\ last.filename \notin Names(last.pre.files)
    /\ last.pre.lastLoadedProject \in Names(last.pre.files)
    /\ last.filename # last.pre.lastLoadedProject
    /\ last.sent = <<409>>

\* C8: every handler sends exactly one response per request.
OneResponsePerRequest == last.op # "none" => Len(last.sent) = 1

\* C9: lastLoadedProject, when set, names a file of the projects directory.
LoadedProjectExists ==
    lastLoadedProject # NoProject => lastLoadedProject \in Names(files)

\* C10: of two concurrent requests with the same target filename at most one
\* succeeds, and no request replaces a file that is in the directory.
AtMostOneWriter ==
    /\ \A c \in 1..NumClients : ~completed[c].replaced
    /\ \A c, d \in 1..NumClients :
           (c # d /\ Succeeded(completed[c].status) /\ Succeeded(completed[d].status))
               => completed[c].target # completed[d].target

====
